---- MODULE Spec2Model ----
(***************************************************************************)
(* Model of the duplex relay of src/main.py: websocket_endpoint pairs one  *)
(* client WebSocket with one Gemini Live session and runs two forwarding   *)
(* tasks, receive_from_client (client -> session) and send_to_client       *)
(* (session -> client), under asyncio.wait(..., FIRST_COMPLETED).          *)
(*                                                                         *)
(* Every await of the source is one step boundary: an operation that is    *)
(* awaited is "in flight" between the step that issues it and the step     *)
(* that completes it, and the other coroutines may run in between.         *)
(***************************************************************************)
EXTENDS Integers, Sequences, FiniteSets, TLC

(* ------------------------------ bounds --------------------------------- *)
\* number of frames the client sends during one connection
MaxClientFrames == 2
\* number of responses the upstream session produces during one connection
MaxResponses == 2

(* ------------------------------ data ----------------------------------- *)
\* byte strings carried by binary frames; <<>> is the zero-length frame
Bytes == {<<>>, <<1>>, <<2, 1>>}

\* bodies of the text frames a client can send
TextBodies == {"not json", "{\"type\":\"ping\"}", "{\"type\":\"text_input\",\"content\":\"hello\"}"}

\* a frame arriving from the client
ClientFrames == [kind : {"bytes"}, bytes : Bytes] \cup [kind : {"text"}, text : TextBodies]

\* one part of a model turn: inline audio data and/or text ("" and <<>> are absent)
AudioPart(b) == [inline_data |-> b, text |-> ""]
TextPart(t) == [inline_data |-> <<>>, text |-> t]

\* a LiveServerMessage: has_content is "server_content is not None"
Response(has, ps, intr, tc) == [has_content |-> has, parts |-> ps, interrupted |-> intr, turn_complete |-> tc]

\* the responses the upstream session may produce
Responses ==
  { Response(FALSE, <<>>, FALSE, FALSE),
    Response(TRUE, <<AudioPart(<<1>>)>>, FALSE, FALSE),
    Response(TRUE, <<AudioPart(<<2, 1>>), AudioPart(<<1>>)>>, FALSE, FALSE),
    Response(TRUE, <<TextPart("hi"), AudioPart(<<>>), AudioPart(<<2, 1>>)>>, FALSE, FALSE),
    Response(TRUE, <<TextPart("hi")>>, FALSE, FALSE),
    Response(TRUE, <<>>, TRUE, FALSE),
    Response(TRUE, <<>>, FALSE, TRUE) }

(* ------------------------------ state ---------------------------------- *)
VARIABLES
  hpc,            \* position of websocket_endpoint
  apc,            \* position of the task receive_from_client
  bpc,            \* position of the task send_to_client
  session,        \* the upstream session: "none", "open", "closed"
  websocket,      \* the client transport: "connected", "client_gone", "closed"
  data,           \* receive_from_client: the frame whose session.send is in flight
  parts,          \* send_to_client: audio still to send for the current response, head in flight
  turn_done,      \* the generator of session.receive() has yielded a turn_complete response
  rcvd,           \* frames websocket.receive_bytes() has taken from the client, in order
  responses,      \* responses session.receive() has yielded, in order
  session_calls,  \* the session.send calls issued, in order
  ws_calls,       \* the send_bytes / send_text / close calls issued on the websocket, in order
  ws_out,         \* the frames delivered to the client, in order
  close_code,     \* the close code the client transport was closed with, 0 while not closed
  a_exit,         \* how receive_from_client left its loop
  b_exit,         \* how send_to_client left its loop
  connects,       \* number of client.aio.live.connect calls
  receive_calls,  \* number of session.receive() invocations
  session_closes, \* number of times the upstream session was released
  raised          \* an exception left websocket_endpoint

vars == <<hpc, apc, bpc, session, websocket, data, parts, turn_done, rcvd, responses,
          session_calls, ws_calls, ws_out, close_code, a_exit, b_exit, connects,
          receive_calls, session_closes, raised>>

\* the state of the handler after `await websocket.accept()`
Init ==
  /\ hpc = "connect"
  /\ apc = "none"
  /\ bpc = "none"
  /\ session = "none"
  /\ websocket = "connected"
  /\ data = <<>>
  /\ parts = <<>>
  /\ turn_done = FALSE
  /\ rcvd = <<>>
  /\ responses = <<>>
  /\ session_calls = <<>>
  /\ ws_calls = <<>>
  /\ ws_out = <<>>
  /\ close_code = 0
  /\ a_exit = "none"
  /\ b_exit = "none"
  /\ connects = 0
  /\ receive_calls = 0
  /\ session_closes = 0
  /\ raised = FALSE

(* --------------------------- helpers ----------------------------------- *)
\* the close code of `websocket.close()` called without arguments
default_close_code == 1000

\* audio_input marking every chunk as the end of the turn
audio_input_end_of_turn(d) == [data |-> d, mime_type |-> "audio/pcm", end_of_turn |-> TRUE]

\* the keyword arguments of session.send for an audio chunk
audio_input(d) == [data |-> d, mime_type |-> "audio/pcm", end_of_turn |-> FALSE]

\* not_data letting every frame through
not_data_never(d) == FALSE

\* `if not data: break`
not_data(d) == d = <<>>

\* f"Error: {str(e)}"
error_text(e) == "Error: " \o e

\* the calls on the websocket
send_bytes(b) == [op |-> "send_bytes", bytes |-> b]
send_text(t) == [op |-> "send_text", text |-> t]
close(c) == [op |-> "close", code |-> c]

\* has_audio accepting every part
has_audio_any_part(part) == TRUE

\* `if part.inline_data and part.inline_data.data`
has_audio(part) == part.inline_data # <<>>

\* audio_of stopping at the first part with audio
audio_of_first_part(r) ==
  IF r.has_content /\ SelectSeq(r.parts, has_audio) # <<>>
  THEN <<Head(SelectSeq(r.parts, has_audio)).inline_data>>
  ELSE <<>>

\* the audio send_to_client extracts from one response, in part order
audio_of(r) ==
  IF r.has_content
  THEN LET sel == SelectSeq(r.parts, has_audio)
       IN [i \in 1..Len(sel) |-> sel[i].inline_data]
  ELSE <<>>

\* except_pass re-raising the fault
except_reraise(fault) == fault

\* the bare `except: pass` around the notification: does the fault leave the handler?
except_pass(fault) == FALSE

(* ---------------------- websocket_endpoint ----------------------------- *)
\* client.aio.live.connect succeeds; both tasks are created, the handler awaits asyncio.wait
connect_ok ==
  /\ hpc = "connect"
  /\ hpc' = "wait"
  /\ session' = "open"
  /\ connects' = connects + 1
  /\ apc' = "recv"
  /\ bpc' = "pull"
  /\ receive_calls' = receive_calls + 1
  /\ UNCHANGED <<websocket, data, parts, turn_done, rcvd, responses, session_calls, ws_calls,
                 ws_out, close_code, a_exit, b_exit, session_closes, raised>>

\* connect_fail trying the connect again
connect_fail_retry ==
  /\ hpc = "connect"
  /\ connects < 3
  /\ hpc' = "connect"
  /\ connects' = connects + 1
  /\ UNCHANGED <<apc, bpc, session, websocket, data, parts, turn_done, rcvd, responses,
                 session_calls, ws_calls, ws_out, close_code, a_exit, b_exit, receive_calls,
                 session_closes, raised>>

\* client.aio.live.connect raises; `except Exception` issues send_text(f"Error: {e}")
connect_fail ==
  /\ hpc = "connect"
  /\ hpc' = "except_send"
  /\ connects' = connects + 1
  /\ ws_calls' = Append(ws_calls, send_text(error_text("connect failed")))
  /\ UNCHANGED <<apc, bpc, session, websocket, data, parts, turn_done, rcvd, responses,
                 session_calls, ws_out, close_code, a_exit, b_exit, receive_calls,
                 session_closes, raised>>

\* wait_first_completed waiting for both tasks (return_when=ALL_COMPLETED)
wait_all_completed ==
  /\ hpc = "wait"
  /\ apc = "done" /\ bpc = "done"
  /\ hpc' = "aexit"
  /\ UNCHANGED <<apc, bpc, session, websocket, data, parts, turn_done, rcvd, responses,
                 session_calls, ws_calls, ws_out, close_code, a_exit, b_exit, connects,
                 receive_calls, session_closes, raised>>

\* asyncio.wait(..., return_when=FIRST_COMPLETED) returns; the pending task is left running
wait_first_completed ==
  /\ hpc = "wait"
  /\ apc = "done" \/ bpc = "done"
  /\ hpc' = "aexit"
  /\ UNCHANGED <<apc, bpc, session, websocket, data, parts, turn_done, rcvd, responses,
                 session_calls, ws_calls, ws_out, close_code, a_exit, b_exit, connects,
                 receive_calls, session_closes, raised>>

\* session_aexit raising into `except Exception` after the session is closed
session_aexit_raises ==
  /\ hpc = "aexit"
  /\ hpc' = "except_send"
  /\ session' = "closed"
  /\ session_closes' = session_closes + 1
  /\ ws_calls' = Append(ws_calls, send_text(error_text("close failed")))
  /\ UNCHANGED <<apc, bpc, websocket, data, parts, turn_done, rcvd, responses, session_calls,
                 ws_out, close_code, a_exit, b_exit, connects, receive_calls, raised>>

\* leaving `async with ... as session` closes the session; `finally` logs; the handler returns
session_aexit ==
  /\ hpc = "aexit"
  /\ hpc' = "done"
  /\ session' = "closed"
  /\ session_closes' = session_closes + 1
  /\ UNCHANGED <<apc, bpc, websocket, data, parts, turn_done, rcvd, responses, session_calls,
                 ws_calls, ws_out, close_code, a_exit, b_exit, connects, receive_calls, raised>>

\* the send_text of the error path completes: delivered, then close() is issued;
\* or it raises on a transport that is gone and the bare except swallows it
except_send_text ==
  /\ hpc = "except_send"
  /\ IF websocket = "connected"
     THEN /\ ws_out' = Append(ws_out, ws_calls[Len(ws_calls)])
          /\ ws_calls' = Append(ws_calls, close(default_close_code))
          /\ hpc' = "except_close"
          /\ raised' = raised
     ELSE /\ hpc' = "done"
          /\ raised' = except_pass(TRUE)
          /\ UNCHANGED <<ws_out, ws_calls>>
  /\ UNCHANGED <<apc, bpc, session, websocket, data, parts, turn_done, rcvd, responses,
                 session_calls, close_code, a_exit, b_exit, connects, receive_calls,
                 session_closes>>

\* the close() of the error path completes: the transport is closed with the default code;
\* or the peer has gone meanwhile, close raises and the bare except swallows it
except_close ==
  /\ hpc = "except_close"
  /\ hpc' = "done"
  /\ IF websocket = "connected"
     THEN /\ websocket' = "closed"
          /\ close_code' = ws_calls[Len(ws_calls)].code
          /\ ws_out' = Append(ws_out, ws_calls[Len(ws_calls)])
          /\ raised' = raised
     ELSE /\ raised' = except_pass(TRUE)
          /\ UNCHANGED <<websocket, close_code, ws_out>>
  /\ UNCHANGED <<apc, bpc, session, data, parts, turn_done, rcvd, responses, session_calls,
                 ws_calls, a_exit, b_exit, connects, receive_calls, session_closes>>

websocket_endpoint ==
  \/ connect_ok
  \/ connect_fail
  \/ wait_first_completed
  \/ session_aexit
  \/ except_send_text
  \/ except_close

(* ---------------------- receive_from_client --------------------------- *)
\* websocket.receive_bytes() returns a binary frame: an empty one breaks the loop,
\* any other is passed to session.send(input=..., end_of_turn=False), now in flight
rfc_receive_bytes(f) ==
  /\ apc = "recv"
  /\ websocket = "connected"
  /\ Len(rcvd) < MaxClientFrames
  /\ f.kind = "bytes"
  /\ rcvd' = Append(rcvd, f)
  /\ IF not_data(f.bytes)
     THEN /\ apc' = "done"
          /\ a_exit' = "break"
          /\ UNCHANGED <<data, session_calls>>
     ELSE /\ apc' = "send"
          /\ data' = f.bytes
          /\ session_calls' = Append(session_calls, audio_input(f.bytes))
          /\ UNCHANGED a_exit
  /\ UNCHANGED <<hpc, bpc, session, websocket, parts, turn_done, responses, ws_calls, ws_out,
                 close_code, b_exit, connects, receive_calls, session_closes, raised>>

\* websocket.receive_bytes() meets a text frame: the ASGI message carries no bytes, so
\* message["bytes"] raises KeyError (key absent) or yields None (key present, no bytes)
rfc_receive_text(f, key) ==
  /\ apc = "recv"
  /\ websocket = "connected"
  /\ Len(rcvd) < MaxClientFrames
  /\ f.kind = "text"
  /\ rcvd' = Append(rcvd, f)
  /\ apc' = "done"
  /\ a_exit' = IF key = "absent" THEN "KeyError" ELSE "break"
  /\ UNCHANGED <<hpc, bpc, session, websocket, data, parts, turn_done, responses, session_calls,
                 ws_calls, ws_out, close_code, b_exit, connects, receive_calls, session_closes,
                 raised>>

\* websocket.receive_bytes() raises WebSocketDisconnect: the transport is gone
rfc_disconnect ==
  /\ apc = "recv"
  /\ websocket # "connected"
  /\ apc' = "done"
  /\ a_exit' = "WebSocketDisconnect"
  /\ UNCHANGED <<hpc, bpc, session, websocket, data, parts, turn_done, rcvd, responses,
                 session_calls, ws_calls, ws_out, close_code, b_exit, connects, receive_calls,
                 session_closes, raised>>

\* the session.send in flight completes; the loop awaits the next client frame
rfc_session_send_ok ==
  /\ apc = "send"
  /\ session = "open"
  /\ apc' = "recv"
  /\ data' = <<>>
  /\ UNCHANGED <<hpc, bpc, session, websocket, parts, turn_done, rcvd, responses, session_calls,
                 ws_calls, ws_out, close_code, a_exit, b_exit, connects, receive_calls,
                 session_closes, raised>>

\* the session.send in flight raises (upstream failure, or the session was closed);
\* `except Exception` logs and the task ends
rfc_session_send_raises ==
  /\ apc = "send"
  /\ apc' = "done"
  /\ data' = <<>>
  /\ a_exit' = IF session = "open" THEN "UpstreamError" ELSE "SessionClosed"
  /\ UNCHANGED <<hpc, bpc, session, websocket, parts, turn_done, rcvd, responses, session_calls,
                 ws_calls, ws_out, close_code, b_exit, connects, receive_calls, session_closes,
                 raised>>

receive_from_client ==
  \/ \E f \in ClientFrames : rfc_receive_bytes(f)
  \/ \E f \in ClientFrames, key \in {"absent", "none"} : rfc_receive_text(f, key)
  \/ rfc_disconnect
  \/ rfc_session_send_ok
  \/ rfc_session_send_raises

(* ------------------------ send_to_client ------------------------------- *)
\* stc_response with line 109 enabled: an interrupted response sends the text INTERRUPTED
stc_response_forward_interrupt(r) ==
  /\ bpc = "pull"
  /\ session = "open"
  /\ ~turn_done
  /\ Len(responses) < MaxResponses
  /\ responses' = Append(responses, r)
  /\ turn_done' = (r.has_content /\ r.turn_complete)
  /\ IF audio_of(r) # <<>>
     THEN /\ bpc' = "send"
          /\ parts' = audio_of(r)
          /\ ws_calls' = Append(ws_calls, send_bytes(Head(audio_of(r))))
     ELSE /\ ws_calls' = IF r.has_content /\ r.interrupted
                         THEN Append(ws_calls, send_text("INTERRUPTED"))
                         ELSE ws_calls
          /\ UNCHANGED <<bpc, parts>>
  /\ UNCHANGED <<hpc, apc, session, websocket, data, rcvd, session_calls, ws_out, close_code,
                 a_exit, b_exit, connects, receive_calls, session_closes, raised>>

\* `async for response in session.receive()` yields r; the body runs up to its first
\* await: the send_bytes of the first part with audio, or the next pull when there is none
stc_response(r) ==
  /\ bpc = "pull"
  /\ session = "open"
  /\ ~turn_done
  /\ Len(responses) < MaxResponses
  /\ responses' = Append(responses, r)
  /\ turn_done' = (r.has_content /\ r.turn_complete)
  /\ IF audio_of(r) # <<>>
     THEN /\ bpc' = "send"
          /\ parts' = audio_of(r)
          /\ ws_calls' = Append(ws_calls, send_bytes(Head(audio_of(r))))
     ELSE UNCHANGED <<bpc, parts, ws_calls>>
  /\ UNCHANGED <<hpc, apc, session, websocket, data, rcvd, session_calls, ws_out, close_code,
                 a_exit, b_exit, connects, receive_calls, session_closes, raised>>

\* the send_bytes in flight completes: the frame is delivered and the next part with audio
\* is sent, or the next response is awaited; on a transport that is gone it raises
stc_send_bytes ==
  /\ bpc = "send"
  /\ IF websocket = "connected"
     THEN /\ ws_out' = Append(ws_out, send_bytes(Head(parts)))
          /\ parts' = Tail(parts)
          /\ IF Tail(parts) # <<>>
             THEN /\ ws_calls' = Append(ws_calls, send_bytes(Head(Tail(parts))))
                  /\ bpc' = "send"
             ELSE /\ bpc' = "pull"
                  /\ UNCHANGED ws_calls
          /\ UNCHANGED b_exit
     ELSE /\ bpc' = "done"
          /\ b_exit' = "ClientGone"
          /\ parts' = <<>>
          /\ UNCHANGED <<ws_out, ws_calls>>
  /\ UNCHANGED <<hpc, apc, session, websocket, data, turn_done, rcvd, responses, session_calls,
                 close_code, a_exit, connects, receive_calls, session_closes, raised>>

\* stc_receive_again leaving the loop when the generator ends
stc_receive_exit ==
  /\ bpc = "pull"
  /\ turn_done
  /\ bpc' = "done"
  /\ UNCHANGED <<hpc, apc, session, websocket, data, parts, turn_done, rcvd, responses,
                 session_calls, ws_calls, ws_out, close_code, a_exit, b_exit, connects,
                 receive_calls, session_closes, raised>>

\* the generator of session.receive() ends after a turn_complete response;
\* `while True` invokes session.receive() again
stc_receive_again ==
  /\ bpc = "pull"
  /\ turn_done
  /\ turn_done' = FALSE
  /\ receive_calls' = receive_calls + 1
  /\ UNCHANGED <<hpc, apc, bpc, session, websocket, data, parts, rcvd, responses, session_calls,
                 ws_calls, ws_out, close_code, a_exit, b_exit, connects, session_closes, raised>>

\* the pull on session.receive() raises (upstream failure, or the session was closed);
\* `except Exception` logs and the task ends
stc_receive_raises ==
  /\ bpc = "pull"
  /\ ~turn_done
  /\ bpc' = "done"
  /\ b_exit' = IF session = "open" THEN "UpstreamError" ELSE "SessionClosed"
  /\ UNCHANGED <<hpc, apc, session, websocket, data, parts, turn_done, rcvd, responses,
                 session_calls, ws_calls, ws_out, close_code, a_exit, connects, receive_calls,
                 session_closes, raised>>

send_to_client ==
  \/ \E r \in Responses : stc_response(r)
  \/ stc_send_bytes
  \/ stc_receive_again
  \/ stc_receive_raises

(* --------------------------- environment ------------------------------- *)
\* the client closes its side of the WebSocket
client_disconnect ==
  /\ websocket = "connected"
  /\ websocket' = "client_gone"
  /\ UNCHANGED <<hpc, apc, bpc, session, data, parts, turn_done, rcvd, responses, session_calls,
                 ws_calls, ws_out, close_code, a_exit, b_exit, connects, receive_calls,
                 session_closes, raised>>

\* the route has returned without closing: the ASGI server closes the connection normally
server_close ==
  /\ hpc = "done"
  /\ websocket = "connected"
  /\ websocket' = "closed"
  /\ close_code' = default_close_code
  /\ ws_out' = Append(ws_out, close(default_close_code))
  /\ UNCHANGED <<hpc, apc, bpc, session, data, parts, turn_done, rcvd, responses, session_calls,
                 ws_calls, a_exit, b_exit, connects, receive_calls, session_closes, raised>>

Next ==
  \/ websocket_endpoint
  \/ receive_from_client
  \/ send_to_client
  \/ client_disconnect
  \/ server_close

Spec == Init /\ [][Next]_vars

\* the scheduling of the event loop: a coroutine that can run is run, an awaited operation
\* completes or raises; the arrival of client frames, of upstream responses and of upstream
\* failures on an open session is left to the environment
FairSpec ==
  /\ Spec
  /\ WF_vars(websocket_endpoint)
  /\ WF_vars(rfc_disconnect)
  /\ WF_vars(rfc_session_send_ok \/ rfc_session_send_raises)
  /\ WF_vars(stc_send_bytes)
  /\ WF_vars(stc_receive_again)
  /\ WF_vars(session # "open" /\ stc_receive_raises)

(* ------------------------ vocabulary of the claims --------------------- *)
\* the `type` of a text frame read as JSON, "invalid" when it is not a JSON object
json_type(t) ==
  CASE t = "{\"type\":\"ping\"}" -> "ping"
    [] t = "{\"type\":\"text_input\",\"content\":\"hello\"}" -> "text_input"
    [] t = "{\"type\":\"turn_complete\"}" -> "turn_complete"
    [] t = "{\"type\":\"text\",\"content\":\"hi\"}" -> "text"
    [] t = "{\"type\":\"error\"}" -> "error"
    [] OTHER -> "invalid"

\* the `content` of a text_input frame
json_content(t) == IF json_type(t) = "text_input" THEN "hello" ELSE ""

\* the text frame {"type":"text","content":t}
json_text(t) == "{\"type\":\"text\",\"content\":\"" \o t \o "\"}"

is_binary(f) == f.kind = "bytes"
is_nonempty_binary(f) == f.kind = "bytes" /\ f.bytes # <<>>
is_send_bytes(c) == c.op = "send_bytes"

\* the payloads of the send_bytes entries of a call or frame log
bytes_of(log) ==
  LET sel == SelectSeq(log, is_send_bytes)
  IN [i \in 1..Len(sel) |-> sel[i].bytes]

\* the audio sends an audio-forwarding loop owes for the frames fs
audio_sends(fs) ==
  [i \in 1..Len(fs) |-> [data |-> fs[i].bytes, mime_type |-> "audio/pcm", end_of_turn |-> FALSE]]

is_prefix(s, t) == Len(s) <= Len(t) /\ s = SubSeq(t, 1, Len(s))

\* the audio of a sequence of responses, part by part
RECURSIVE part_audio(_)
part_audio(ps) ==
  IF ps = <<>> THEN <<>>
  ELSE (IF Head(ps).inline_data = <<>> THEN <<>> ELSE <<Head(ps).inline_data>>) \o part_audio(Tail(ps))

RECURSIVE flat_audio(_)
flat_audio(rs) ==
  IF rs = <<>> THEN <<>>
  ELSE (IF Head(rs).has_content THEN part_audio(Head(rs).parts) ELSE <<>>) \o flat_audio(Tail(rs))

\* a frame was taken from the client in this step
took_frame == Len(rcvd') = Len(rcvd) + 1
\* a response was yielded by the session in this step
got_response == Len(responses') = Len(responses) + 1

(* ------------------------------- C1 ------------------------------------ *)
\* C1 as stated: every binary frame taken from the client, the empty one included, is
\* matched by one session.send with end_of_turn = false and the same bytes, in order.
C1_EveryBinaryFrameForwarded ==
  session_calls = audio_sends(SelectSeq(rcvd, is_binary))

\* C1 (amended): the session.send calls issued are exactly the non-empty binary frames taken
\* from the client, one call per frame, in order, each with end_of_turn = false, mime type
\* audio/pcm and the frame's bytes unchanged.
C1_NonEmptyFramesForwarded ==
  session_calls = audio_sends(SelectSeq(rcvd, is_nonempty_binary))

\* two different frames went upstream and the loop is awaiting the next one
C1_Witness ==
  /\ apc = "recv"
  /\ Len(session_calls) >= 2
  /\ session_calls[1].data # session_calls[2].data

(* ------------------------------- C2 ------------------------------------ *)
\* C2: a text frame that is not valid JSON, or JSON of another type than text_input, sends
\* nothing upstream, leaves the loop awaiting the next client message and tears nothing down.
C2_IgnoredTextKeepsLoop ==
  [][ (took_frame /\ rcvd'[Len(rcvd')].kind = "text"
         /\ json_type(rcvd'[Len(rcvd')].text) # "text_input")
      => (apc' = "recv" /\ session_calls' = session_calls /\ hpc' = hpc /\ session' = session) ]_vars

(* ------------------------------- C3 ------------------------------------ *)
\* C3: a text frame {"type":"text_input","content":c} produces exactly one text input c with
\* end_of_turn = true on the session, and the loop goes on.
C3_TextInputForwarded ==
  [][ (took_frame /\ rcvd'[Len(rcvd')].kind = "text"
         /\ json_type(rcvd'[Len(rcvd')].text) = "text_input")
      => ( /\ session_calls' = Append(session_calls,
                  [text |-> json_content(rcvd'[Len(rcvd')].text), end_of_turn |-> TRUE])
           /\ apc' # "done" ) ]_vars

(* ------------------------------- C4 ------------------------------------ *)
\* C4 as stated: while the loop awaits the next response, the client has been sent exactly
\* one binary frame for every response that carried audio.
C4_OneFramePerAudioResponse ==
  bpc = "pull" =>
    Len(bytes_of(ws_out)) = Cardinality({i \in 1..Len(responses) : flat_audio(<<responses[i]>>) # <<>>})

\* C4 (amended): the binary frames sent to the client are the non-empty audio parts of the
\* responses received, one frame per part with the part's bytes unchanged, in part order and
\* response order; nothing is merged, split, dropped or reordered.
C4_OneFramePerAudioPart ==
  /\ bpc = "pull" => /\ bytes_of(ws_calls) = flat_audio(responses)
                     /\ bytes_of(ws_out) = flat_audio(responses)
  /\ bpc = "send" => /\ bytes_of(ws_calls) \o Tail(parts) = flat_audio(responses)
                     /\ bytes_of(ws_out) \o parts = flat_audio(responses)
  /\ bpc = "done" => /\ is_prefix(bytes_of(ws_calls), flat_audio(responses))
                     /\ is_prefix(bytes_of(ws_out), bytes_of(ws_calls))

\* a response with two audio parts and one more audio frame have reached the client
C4_Witness ==
  /\ bpc = "pull"
  /\ Len(bytes_of(ws_out)) >= 3
  /\ bytes_of(ws_out)[1] # bytes_of(ws_out)[2]

(* ------------------------------- C5 ------------------------------------ *)
\* C5: a TurnComplete response makes the loop send exactly the text frame
\* {"type":"turn_complete"} to the client and changes nothing else.
C5_TurnCompleteFrame ==
  [][ (got_response /\ responses'[Len(responses')].has_content
         /\ responses'[Len(responses')].turn_complete)
      => ( /\ ws_calls' = Append(ws_calls, send_text("{\"type\":\"turn_complete\"}"))
           /\ session_calls' = session_calls
           /\ hpc' = hpc /\ session' = session /\ websocket' = websocket ) ]_vars

(* ------------------------------- C6 ------------------------------------ *)
\* the session is Closed: the handler has returned, the upstream session is closed and
\* neither forwarding task is running
Closed == hpc = "done" /\ session = "closed" /\ apc = "done" /\ bpc = "done"

\* C6: when the client disconnects while send_to_client is suspended awaiting the next
\* upstream response, the session eventually is Closed; and no state in which nothing can
\* happen any more has the client gone and the upstream session still open.
C6_DisconnectReachesClosed ==
  /\ (websocket = "client_gone" /\ hpc = "wait" /\ bpc = "pull") ~> Closed
  /\ []((websocket = "client_gone" /\ ~ENABLED Next) => session # "open")

\* the client left while send_to_client awaited a response, and the session is now Closed
C6_Witness ==
  /\ Closed
  /\ websocket = "client_gone"
  /\ a_exit = "WebSocketDisconnect"
  /\ b_exit = "SessionClosed"

(* ------------------------------- C7 ------------------------------------ *)
\* C7: after a failed connect no forwarding task exists, and a closed client transport was
\* closed with the abnormal closure code 1011.
C7_ConnectFailAbnormalClose ==
  (connects > 0 /\ session = "none") =>
    /\ apc = "none" /\ bpc = "none"
    /\ websocket = "closed" => close_code = 1011

(* ------------------------------- C8 ------------------------------------ *)
is_close(c) == c.op = "close"

\* C8: the upstream session and the client transport are each released at most once, no
\* fault leaves the handler, and a close requested on a transport that is already gone
\* leaves the transport as it was.
C8_CloseIdempotent ==
  /\ [](session_closes <= 1 /\ Len(SelectSeq(ws_out, is_close)) <= 1 /\ ~raised)
  /\ [][ (hpc = "except_close" /\ websocket # "connected" /\ hpc' # hpc)
         => (websocket' = websocket /\ ws_out' = ws_out /\ close_code' = close_code
             /\ hpc' = "done") ]_vars

\* close() was requested after the peer had disconnected, and the handler has returned
C8_Witness ==
  /\ hpc = "done"
  /\ ws_calls # <<>>
  /\ ws_calls[Len(ws_calls)].op = "close"
  /\ websocket = "client_gone"

(* ------------------------------- C9 ------------------------------------ *)
\* a response whose model turn carries text only
is_transcript(r) ==
  /\ r.has_content
  /\ r.parts # <<>>
  /\ \A i \in 1..Len(r.parts) : r.parts[i].text # "" /\ r.parts[i].inline_data = <<>>

\* C9: a TranscriptText response makes the loop send exactly the text frame
\* {"type":"text","content":t} to the client, in order with the other frames.
C9_TranscriptFrame ==
  [][ (got_response /\ is_transcript(responses'[Len(responses')]))
      => ws_calls' = Append(ws_calls, send_text(json_text(responses'[Len(responses')].parts[1].text))) ]_vars

(* ------------------------------- C10 ----------------------------------- *)
is_error_frame(c) == c.op = "send_text" /\ json_type(c.text) = "error"

\* C10: a session torn down after an upstream failure inside a forwarding loop has sent the
\* client an error frame or closed the transport with the abnormal code 1011 by the time it
\* is Closed; after a clean client disconnect no error frame was sent.
C10_FailureNotifiesClient ==
  /\ (hpc = "done" /\ session = "closed" /\ (a_exit = "UpstreamError" \/ b_exit = "UpstreamError"))
       => \/ \E i \in 1..Len(ws_out) : is_error_frame(ws_out[i])
          \/ close_code = 1011
  /\ (a_exit = "WebSocketDisconnect" /\ b_exit # "UpstreamError")
       => \A i \in 1..Len(ws_out) : ~is_error_frame(ws_out[i])

(* ------------------------------- C11 ----------------------------------- *)
\* C11: after teardown has begun the surviving loop forwards nothing more: no session.send
\* is issued once the upstream session is closed, and no send is issued on the client
\* transport once the client has disconnected or the transport is closed.
C11_NoForwardAfterTeardown ==
  [][ /\ ((apc = "done" \/ bpc = "done") /\ session = "closed")
           => session_calls' = session_calls
      /\ ((apc = "done" \/ bpc = "done") /\ websocket # "connected")
           => bytes_of(ws_calls') = bytes_of(ws_calls) ]_vars

(* ------------------------------- C12 ----------------------------------- *)
\* the coroutines with a send in flight on the client transport, and on the session
ws_writers ==
  (IF bpc = "send" THEN {"send_to_client"} ELSE {})
    \cup (IF hpc \in {"except_send", "except_close"} THEN {"websocket_endpoint"} ELSE {})
session_writers == IF apc = "send" THEN {"receive_from_client"} ELSE {}

\* C12: at most one send is in flight on the client transport and at most one on the
\* upstream session; the error-path write of the handler never overlaps a send_bytes of
\* send_to_client, and while the handler writes no forwarding task exists.
C12_SingleWriter ==
  /\ Cardinality(ws_writers) <= 1
  /\ Cardinality(session_writers) <= 1
  /\ hpc \in {"except_send", "except_close"} => (apc = "none" /\ bpc = "none")

\* a send_bytes and a session.send are in flight at once, one on each handle
C12_Witness ==
  /\ bpc = "send"
  /\ apc = "send"
  /\ hpc = "wait"

(* ------------------------------- C13 ----------------------------------- *)
\* exactly one forwarding loop has exited
half_open == (apc = "done") # (bpc = "done")

failure_seen == (connects > 0 /\ session = "none") \/ a_exit # "none" \/ b_exit # "none"

\* C14: no failure escapes the handler: whatever fails (the connect, either loop, the
\* diagnostic send or the close on a transport that is gone), websocket_endpoint raises
\* nothing and returns.
C14_NoFaultEscapes ==
  /\ [](~raised)
  /\ failure_seen ~> (hpc = "done" /\ ~raised)

\* the connect failed, the diagnostic send failed on a gone transport, the handler returned
C14_Witness ==
  /\ hpc = "done"
  /\ session = "none"
  /\ Len(ws_calls) = 1
  /\ ws_out = <<>>
  /\ websocket = "client_gone"

(* ------------------------------- C15 ----------------------------------- *)
\* the number of responses that end their turn
turns_completed(rs) == Cardinality({i \in 1..Len(rs) : rs[i].has_content /\ rs[i].turn_complete})

\* C15 as stated: the loop never invokes session.receive() a second time.
C15_NoReinvoke == receive_calls <= 1

\* C15 (amended): the loop leaves only when a pull or a send raises; when the sequence of
\* session.receive() ends without raising it invokes session.receive() again, once per
\* ended sequence, so the invocations number one plus the turns that have ended.
C15_ReinvokePerTurn ==
  /\ bpc # "none" =>
       receive_calls = 1 + turns_completed(responses) - (IF turn_done THEN 1 ELSE 0)
  /\ (bpc = "done") = (b_exit # "none")

\* a sequence has ended, session.receive() was invoked again and yielded a response
C15_Witness ==
  /\ receive_calls = 2
  /\ Len(responses) = 2
  /\ responses[1].turn_complete
  /\ bpc # "done"

(* ------------------------------- C16 ----------------------------------- *)
\* C16: an Interrupted response sends nothing to the client and nothing upstream, leaves the
\* session and the transport as they are, and the loop awaits the next response.
C16_InterruptedSilent ==
  [][ (got_response /\ responses'[Len(responses')].has_content
         /\ responses'[Len(responses')].interrupted)
      => ( /\ ws_calls' = ws_calls /\ ws_out' = ws_out
           /\ session_calls' = session_calls
           /\ hpc' = hpc /\ session' = session /\ websocket' = websocket
           /\ bpc' = "pull" /\ b_exit' = "none" ) ]_vars

\* an Interrupted response was received and the loop went on to the next response
C16_Witness ==
  /\ Len(responses) = 2
  /\ responses[1].interrupted
  /\ bpc = "send"
  /\ Len(ws_calls) = 1

(* ------------------------------- C17 ----------------------------------- *)
\* C17: the upstream session is opened at most once per connection: no connect follows a
\* failed connect or a failure of either loop.
C17_ConnectOnce ==
  /\ [](connects <= 1)
  /\ [][connects' # connects => (connects = 0 /\ a_exit = "none" /\ b_exit = "none")]_vars

\* the stream failed, the handler returned, and the session had been opened once
C17_Witness ==
  /\ hpc = "done"
  /\ connects = 1
  /\ b_exit = "UpstreamError"
  /\ apc = "done"

(* ------------------------------- C18 ----------------------------------- *)
is_empty_binary(f) == f.kind = "bytes" /\ f.bytes = <<>>

\* C18: an empty binary frame is not forwarded and ends receive_from_client: it is the last
\* frame ever taken from the client, no session.send carries it, and the handler then
\* returns with the upstream session closed.
C18_EmptyFrameEndsSession ==
  /\ [](\A i \in 1..Len(rcvd) :
          is_empty_binary(rcvd[i]) =>
            /\ i = Len(rcvd)
            /\ apc = "done"
            /\ Len(session_calls) = Len(rcvd) - 1
            /\ \A j \in 1..Len(session_calls) : session_calls[j].data # <<>>)
  /\ (rcvd # <<>> /\ is_empty_binary(rcvd[Len(rcvd)])) ~> (hpc = "done" /\ session = "closed")

\* an empty frame followed an audio frame; the session is torn down, the client still there
C18_Witness ==
  /\ Len(rcvd) = 2
  /\ is_empty_binary(rcvd[2])
  /\ hpc = "done"
  /\ session = "closed"
  /\ websocket = "connected"

(* ------------------------------- C19 ----------------------------------- *)
\* the number of parts of r with non-empty inline audio data
audio_parts(r) ==
  IF r.has_content
  THEN Cardinality({i \in 1..Len(r.parts) : r.parts[i].inline_data # <<>>})
  ELSE 0

RECURSIVE frames_owed(_)
frames_owed(rs) == IF rs = <<>> THEN 0 ELSE audio_parts(Head(rs)) + frames_owed(Tail(rs))

\* C19: a response yields as many send_bytes as its model turn has parts with non-empty
\* audio data, in part order, and none for parts without audio data or for a response
\* without server content.
C19_FramesPerResponse ==
  /\ [](/\ bpc = "pull" => Len(bytes_of(ws_calls)) = frames_owed(responses)
        /\ bpc = "send" =>
             /\ Len(bytes_of(ws_calls)) + Len(parts) - 1 = frames_owed(responses)
             /\ LET owed == part_audio(responses[Len(responses)].parts)
                IN parts = SubSeq(owed, Len(owed) - Len(parts) + 1, Len(owed)))
  /\ [][ got_response =>
           IF audio_parts(responses'[Len(responses')]) = 0
           THEN ws_calls' = ws_calls /\ bpc' = "pull"
           ELSE /\ Len(parts') = audio_parts(responses'[Len(responses')])
                /\ ws_calls' = Append(ws_calls, [op |-> "send_bytes", bytes |-> Head(parts')]) ]_vars

\* a response with text, empty audio and audio, then one with two audio parts: three frames
C19_Witness ==
  /\ Len(responses) = 2
  /\ Len(responses[1].parts) = 3
  /\ Len(responses[2].parts) = 2
  /\ bpc = "pull"
  /\ Len(bytes_of(ws_out)) = 3
====
